---- MODULE Spec2Model ----
(***************************************************************************)
(* Progress bar for Ray actors (tqdm): the ProgressBarActor that workers   *)
(* call to report completed items, the ProgressBar whose print_until_done  *)
(* loop drains it into a tqdm display, and the run() example.              *)
(*                                                                         *)
(* ProgressBarActor has an async method, so Ray hosts it on one asyncio    *)
(* event loop: every method body runs without interleaving up to its next  *)
(* await.  update and get_counter have no await and are one step each;     *)
(* wait_for_update has one await (event.wait()) and is therefore two       *)
(* steps when the event is not set on entry: park, then resume after a     *)
(* later event.set() has scheduled the waiter.  Calls made with            *)
(* .remote() are messages in flight until the actor executes them.         *)
(***************************************************************************)
EXTENDS Integers, Sequences, FiniteSets, Bags

\* ---------------------------------------------------------------- bounds
\* Reports issued in one behaviour (all workers together).
MaxReports == 3
\* Largest num_items_completed a worker passes to update.
MaxAmount == 2
\* Largest ProgressBar.total the model constructs.
MaxTotal == 3

\* The callers holding the actor handle.  The actor is an async actor, so
\* Ray orders neither the calls of different workers nor two calls of one
\* worker: every call in flight is concurrent with every other, and one
\* caller id stands for any number of workers.
Workers == {"w"}

\* Every int a caller can pass: update has no check on its argument.
AnyAmounts == (-1)..MaxAmount
\* The num_items_completed values of callers that only report completed
\* items ("the incremental number of items that were just completed").
PosAmounts == 1..MaxAmount

\* run(): num_ticks = 6
num_ticks == 6

VARIABLES
    counter,    \* ProgressBarActor.counter
    delta,      \* ProgressBarActor.delta
    event,      \* ProgressBarActor.event: the asyncio.Event's flag
    call,       \* the outstanding wait_for_update call: "none", "sent"
                \* (request in flight), "parked" (awaiting event.wait()),
                \* "woken" (waiter scheduled by event.set(), not yet resumed),
                \* "replied" (result in flight to ray.get)
    reply,      \* the (saved_delta, counter) tuple of the last return
    inflight,   \* bag of update.remote(n) messages not yet executed
    sent,       \* per worker: number of update.remote calls issued
    pc,         \* ProgressBar.print_until_done: "RUNNING", "WAITING", "DONE"
    total,      \* ProgressBar.total (the completion target)
    pbar,       \* calls made on the tqdm display, in order
    observed,   \* <<v>>: the value the last get_counter call returned
    completed,  \* history: bag of the amounts of all executed update calls
    window,     \* history: bag of the amounts executed since the last drain
    returns,    \* history: tuples returned by wait_for_update, in order
    ncalls      \* history: number of wait_for_update calls issued

vars == <<counter, delta, event, call, reply, inflight, sent, pc, total,
          pbar, observed, completed, window, returns, ncalls>>

actorVars == <<counter, delta, event>>
histVars == <<completed, window, returns, ncalls>>

\* ------------------------------------------------------------- helpers
RECURSIVE SumSeq(_)
SumSeq(s) == IF s = <<>> THEN 0 ELSE Head(s) + SumSeq(Tail(s))

RECURSIVE SumSent(_, _)
SumSent(f, S) ==
    IF S = {} THEN 0
    ELSE LET x == CHOOSE y \in S : TRUE IN f[x] + SumSent(f, S \ {x})

\* Sum of the amounts in a bag, with multiplicity.
RECURSIVE SumBag(_)
SumBag(B) ==
    IF DOMAIN B = {} THEN 0
    ELSE LET x == CHOOSE y \in DOMAIN B : TRUE
         IN x * B[x] + SumBag([y \in DOMAIN B \ {x} |-> B[y]])

\* No get_counter call has returned yet.
NoRead == <<>>

\* --------------------------------------------------------------- Init
\* ProgressBarActor.__init__ and ProgressBar.__init__(total).
InitActor ==
    /\ counter = 0
    /\ delta = 0
    /\ event = FALSE

InitRest ==
    /\ call = "none"
    /\ reply = <<0, 0>>
    /\ inflight = EmptyBag
    /\ pc = "RUNNING"
    /\ pbar = <<>>
    /\ observed = NoRead
    /\ completed = EmptyBag
    /\ window = EmptyBag
    /\ returns = <<>>
    /\ ncalls = 0

Init ==
    /\ InitActor
    /\ InitRest
    /\ sent = [w \in Workers |-> 0]
    /\ total \in 1..MaxTotal

\* Every int ProgressBar.__init__ accepts as total: it has no check.
AnyTotals == (-1)..MaxTotal

\* ProgressBar(total) constructed with any int.
InitAnyTotal ==
    /\ InitActor
    /\ InitRest
    /\ sent = [w \in Workers |-> 0]
    /\ total \in AnyTotals

\* run(): pb = ProgressBar(num_ticks) and one sleep_then_increment task per
\* i in range(0, num_ticks), none of which has called update yet.
InitRun ==
    /\ InitActor
    /\ InitRest
    /\ sent = [i \in 0..(num_ticks - 1) |-> 0]
    /\ total = num_ticks

\* ------------------------------------------------------------ workers
\* A worker calls actor.update.remote(n): fire and forget.
Report(w, n) ==
    /\ SumSent(sent, DOMAIN sent) < MaxReports
    /\ sent' = [sent EXCEPT ![w] = @ + 1]
    /\ inflight' = inflight (+) SetToBag({n})
    /\ UNCHANGED <<actorVars, call, reply, pc, total, pbar, observed, histVars>>

\* sleep_then_increment(i, pba): sleep, then pba.update.remote(1), once.
sleep_then_increment(i) ==
    /\ sent[i] = 0
    /\ sent' = [sent EXCEPT ![i] = 1]
    /\ inflight' = inflight (+) SetToBag({1})
    /\ UNCHANGED <<actorVars, call, reply, pc, total, pbar, observed, histVars>>

\* -------------------------------------------------- ProgressBarActor
\* Mutant of Event_set: self.event.set() is missing from update.
Event_not_set == UNCHANGED <<event, call>>

\* Mutant of Event_set: the flag is raised but the parked waiter is not
\* scheduled.
Event_set_no_wakeup ==
    /\ event' = TRUE
    /\ call' = call

\* asyncio.Event.set() as called by update: raise the flag and, when it
\* was down, schedule the parked waiter.
Event_set ==
    /\ event' = TRUE
    /\ call' = IF ~event /\ call = "parked" THEN "woken" ELSE call

\* Mutant of update: delta is overwritten instead of accumulated.
update_overwrites_delta(n) ==
    /\ BagIn(n, inflight)
    /\ inflight' = inflight (-) SetToBag({n})
    /\ counter' = counter + n
    /\ delta' = n
    /\ Event_set
    /\ completed' = completed (+) SetToBag({n})
    /\ window' = window (+) SetToBag({n})
    /\ UNCHANGED <<reply, sent, pc, total, pbar, observed, returns, ncalls>>

\* Mutant of update: counter counts calls instead of items.
update_counts_calls(n) ==
    /\ BagIn(n, inflight)
    /\ inflight' = inflight (-) SetToBag({n})
    /\ counter' = counter + 1
    /\ delta' = delta + n
    /\ Event_set
    /\ completed' = completed (+) SetToBag({n})
    /\ window' = window (+) SetToBag({n})
    /\ UNCHANGED <<reply, sent, pc, total, pbar, observed, returns, ncalls>>

\* Mutant of update: it waits until the previous progress was drained.
update_waits_for_drain(n) ==
    /\ ~event
    /\ BagIn(n, inflight)
    /\ inflight' = inflight (-) SetToBag({n})
    /\ counter' = counter + n
    /\ delta' = delta + n
    /\ Event_set
    /\ completed' = completed (+) SetToBag({n})
    /\ window' = window (+) SetToBag({n})
    /\ UNCHANGED <<reply, sent, pc, total, pbar, observed, returns, ncalls>>

\* Mutant of update: a report executed while the event is already set is
\* not added to delta.
update_drops_when_set(n) ==
    /\ BagIn(n, inflight)
    /\ inflight' = inflight (-) SetToBag({n})
    /\ counter' = counter + n
    /\ delta' = IF event THEN delta ELSE delta + n
    /\ Event_set
    /\ completed' = completed (+) SetToBag({n})
    /\ window' = window (+) SetToBag({n})
    /\ UNCHANGED <<reply, sent, pc, total, pbar, observed, returns, ncalls>>

\* ProgressBarActor.update(num_items_completed), executed by the actor.
update(n) ==
    /\ BagIn(n, inflight)
    /\ inflight' = inflight (-) SetToBag({n})
    /\ counter' = counter + n
    /\ delta' = delta + n
    /\ Event_set
    /\ completed' = completed (+) SetToBag({n})
    /\ window' = window (+) SetToBag({n})
    /\ UNCHANGED <<reply, sent, pc, total, pbar, observed, returns, ncalls>>

\* Mutant of Drain: self.delta = 0 is missing.
Drain_keeps_delta ==
    /\ event' = FALSE
    /\ reply' = <<delta, counter>>
    /\ call' = "replied"
    /\ returns' = Append(returns, <<delta, counter>>)
    /\ window' = EmptyBag
    /\ UNCHANGED <<counter, delta, inflight, sent, pc, total, pbar, observed,
                   completed, ncalls>>

\* Mutant of Drain: self.event.clear() is missing.
Drain_keeps_event ==
    /\ delta' = 0
    /\ reply' = <<delta, counter>>
    /\ call' = "replied"
    /\ returns' = Append(returns, <<delta, counter>>)
    /\ window' = EmptyBag
    /\ UNCHANGED <<counter, event, inflight, sent, pc, total, pbar, observed,
                   completed, ncalls>>

\* wait_for_update after event.wait() has returned: clear, drain, return.
Drain ==
    /\ event' = FALSE
    /\ delta' = 0
    /\ reply' = <<delta, counter>>
    /\ call' = "replied"
    /\ returns' = Append(returns, <<delta, counter>>)
    /\ window' = EmptyBag
    /\ UNCHANGED <<counter, inflight, sent, pc, total, pbar, observed,
                   completed, ncalls>>

\* Mutant of wait_for_update_enter: await self.event.wait() is missing.
wait_for_update_enter_no_wait ==
    /\ call = "sent"
    /\ Drain

\* wait_for_update entered by the actor: event.wait() returns at once when
\* the flag is set, otherwise the coroutine parks.
wait_for_update_enter ==
    /\ call = "sent"
    /\ IF event
       THEN Drain
       ELSE /\ call' = "parked"
            /\ UNCHANGED <<actorVars, reply, inflight, sent, pc, total, pbar,
                           observed, histVars>>

\* wait_for_update resumed by the event loop after event.set().
wait_for_update_resume ==
    /\ call = "woken"
    /\ Drain

\* Mutant of get_counter: it returns self.delta instead of self.counter.
get_counter_returns_delta ==
    /\ observed' = <<delta>>
    /\ UNCHANGED <<actorVars, call, reply, inflight, sent, pc, total, pbar,
                   histVars>>

\* Mutant of get_counter: the read also takes the pending delta and clears
\* the event, as wait_for_update does.
get_counter_consumes_delta ==
    /\ observed' = <<counter>>
    /\ delta' = 0
    /\ event' = FALSE
    /\ UNCHANGED <<counter, call, reply, inflight, sent, pc, total, pbar,
                   histVars>>

\* ProgressBarActor.get_counter, called at any time through the handle.
get_counter ==
    /\ observed' = <<counter>>
    /\ UNCHANGED <<actorVars, call, reply, inflight, sent, pc, total, pbar,
                   histVars>>

\* ------------------------------------------------------- ProgressBar
\* print_until_done: self.actor.wait_for_update.remote(), then ray.get.
print_until_done_call ==
    /\ pc = "RUNNING"
    /\ call = "none"
    /\ call' = "sent"
    /\ pc' = "WAITING"
    /\ ncalls' = ncalls + 1
    /\ UNCHANGED <<actorVars, reply, inflight, sent, total, pbar, observed,
                   completed, window, returns>>

\* Mutant of Reached: the loop ends only on counter == self.total.
Reached_only_equal(c) == c = total

\* Mutant of Reached: the loop ends only on counter > self.total.
Reached_strictly(c) == c > total

\* Mutant of Reached: the loop ends as soon as anything was counted.
Reached_any_progress(c) == c > 0

\* if counter >= self.total
Reached(c) == c >= total

\* Mutant of print_until_done_get: the counter is tested before
\* pbar.update(delta), so the last delta is never displayed.
print_until_done_get_tests_first ==
    /\ pc = "WAITING"
    /\ call = "replied"
    /\ call' = "none"
    /\ IF Reached(reply[2])
       THEN /\ pbar' = Append(pbar, <<"close">>)
            /\ pc' = "DONE"
       ELSE /\ pbar' = Append(pbar, <<"update", reply[1]>>)
            /\ pc' = "RUNNING"
    /\ UNCHANGED <<actorVars, reply, inflight, sent, total, observed, histVars>>

\* Mutant of print_until_done_get: pbar.update is given the counter instead
\* of the delta.
print_until_done_get_shows_counter ==
    /\ pc = "WAITING"
    /\ call = "replied"
    /\ call' = "none"
    /\ IF Reached(reply[2])
       THEN /\ pbar' = pbar \o << <<"update", reply[2]>>, <<"close">> >>
            /\ pc' = "DONE"
       ELSE /\ pbar' = Append(pbar, <<"update", reply[2]>>)
            /\ pc' = "RUNNING"
    /\ UNCHANGED <<actorVars, reply, inflight, sent, total, observed, histVars>>

\* print_until_done: ray.get returns; pbar.update(delta); close and return
\* when the counter has reached the total, else loop.
print_until_done_get ==
    /\ pc = "WAITING"
    /\ call = "replied"
    /\ call' = "none"
    /\ IF Reached(reply[2])
       THEN /\ pbar' = pbar \o << <<"update", reply[1]>>, <<"close">> >>
            /\ pc' = "DONE"
       ELSE /\ pbar' = Append(pbar, <<"update", reply[1]>>)
            /\ pc' = "RUNNING"
    /\ UNCHANGED <<actorVars, reply, inflight, sent, total, observed, histVars>>

\* run(): after pb.print_until_done() and ray.get(tasks_pre_launch) have
\* returned, ray.get(actor.get_counter.remote()), once.
run_get_counter ==
    /\ pc = "DONE"
    /\ \A i \in DOMAIN sent : sent[i] = 1
    /\ observed = NoRead
    /\ get_counter

\* ---------------------------------------------------------------- Next
\* Workers pass any int to update, zero and negative included.
Next ==
    \/ \E w \in DOMAIN sent, n \in AnyAmounts : Report(w, n)
    \/ \E n \in AnyAmounts : update(n)
    \/ wait_for_update_enter
    \/ wait_for_update_resume
    \/ get_counter
    \/ print_until_done_call
    \/ print_until_done_get

Spec == Init /\ [][Next]_vars

\* Workers that only ever pass positive amounts.
NextPos ==
    \/ \E w \in DOMAIN sent, n \in PosAmounts : Report(w, n)
    \/ \E n \in PosAmounts : update(n)
    \/ wait_for_update_enter
    \/ wait_for_update_resume
    \/ get_counter
    \/ print_until_done_call
    \/ print_until_done_get

SpecPos == Init /\ [][NextPos]_vars

\* Progress bars constructed with any int as total.
SpecAnyTotal == InitAnyTotal /\ [][Next]_vars

\* The run() example.
NextRun ==
    \/ \E i \in DOMAIN sent : sleep_then_increment(i)
    \/ update(1)
    \/ wait_for_update_enter
    \/ wait_for_update_resume
    \/ print_until_done_call
    \/ print_until_done_get
    \/ run_get_counter

SpecRun == InitRun /\ [][NextRun]_vars

\* Scheduling: the actor's event loop executes every delivered call and
\* resumes every scheduled coroutine; the thread in print_until_done runs.
\* Workers are under no obligation to report.
Fairness ==
    /\ WF_vars(\E n \in AnyAmounts : update(n))
    /\ WF_vars(wait_for_update_enter)
    /\ WF_vars(wait_for_update_resume)
    /\ WF_vars(print_until_done_call)
    /\ WF_vars(print_until_done_get)

FairSpec == Spec /\ Fairness

\* In run() every task is scheduled and finishes its sleep.
FairRun ==
    /\ SpecRun
    /\ Fairness
    /\ \A i \in 0..(num_ticks - 1) : WF_vars(sleep_then_increment(i))
    /\ WF_vars(run_get_counter)


\* ============================================================== claims
\* A step in which wait_for_update returns (the drain).
DrainStep == Len(returns') = Len(returns) + 1

\* The tuple wait_for_update returned last.
LastReturn == returns[Len(returns)]

\* The deltas, and the totals, of the returns so far.
Deltas(rs) == [i \in 1..Len(rs) |-> rs[i][1]]
Totals(rs) == [i \in 1..Len(rs) |-> rs[i][2]]

\* C1: the delta a wait_for_update return carries is the sum of the amounts
\* of all update calls executed since the previous return (or since
\* creation), all of them in that one return: after it nothing is left
\* pending for a later wake-up.
C1_DrainReturnsWindowSum ==
    [][DrainStep => /\ returns'[Len(returns')][1] = SumBag(window)
                    /\ delta' = 0]_vars

\* C1 witness: two reports executed before the first wait_for_update
\* return, which carried both as one delta equal to the total.
C1_Witness ==
    /\ Len(returns) = 1
    /\ BagCardinality(completed) = 2
    /\ window = EmptyBag
    /\ LastReturn = <<3, 3>>

\* C2: in every reachable state counter is the sum of the amounts of the
\* update calls executed so far.
C2_CounterIsSumOfReports == counter = SumBag(completed)

\* C2 witness: three reports executed, interleaved with a drain and a
\* get_counter call.
C2_Witness ==
    /\ BagCardinality(completed) = 3
    /\ Len(returns) >= 1
    /\ observed # NoRead
    /\ counter >= 4

\* C3: in every reachable state counter is the sum of the deltas returned
\* so far plus the pending delta, and every drain leaves delta at 0.
C3_NoLossNoDoubleCount ==
    /\ [](counter = SumSeq(Deltas(returns)) + delta)
    /\ [][DrainStep => delta' = 0]_vars

\* C3 witness: two drains done and more units pending.
C3_Witness ==
    /\ Len(returns) = 2
    /\ delta > 0
    /\ counter = returns[1][1] + returns[2][1] + delta

\* C4: wait_for_update returns only when an update was executed since the
\* previous return, every return carries delta >= 1, and a call that finds
\* nothing undrained is parked with nothing pending.
C4_NoSpuriousReturn ==
    /\ [][DrainStep => /\ window # EmptyBag
                        /\ returns'[Len(returns')][1] >= 1]_vars
    /\ [](call = "parked" => window = EmptyBag /\ delta = 0 /\ ~event)

\* C5: a wait_for_update call that is outstanding while an executed update
\* is undrained eventually returns, and the call is never parked while a
\* delta is pending.
C5_NoLostWakeup ==
    /\ (call \in {"sent", "parked", "woken"} /\ window # EmptyBag)
            ~> (call = "replied")
    /\ [](call = "parked" => delta = 0)

\* C5 witness: an update was executed while the consumer was parked; the
\* waiter is scheduled and the units are pending.
C5_Witness ==
    /\ call = "woken"
    /\ pc = "WAITING"
    /\ delta > 0

\* C6: if from some point on the executed reports sum to at least the
\* total, print_until_done eventually returns, and it never issues more
\* wait_for_update calls than one per executed report plus one.
C6_MonitorTerminates ==
    /\ (<>[](counter >= total)) => <>(pc = "DONE")
    /\ [](ncalls <= BagCardinality(completed) + 1)

\* C6 witness: print_until_done returned after three wait_for_update calls.
C6_Witness ==
    /\ pc = "DONE"
    /\ ncalls = 3
    /\ counter >= total

\* The returns print_until_done has received through ray.get.
Received ==
    SubSeq(returns, 1, Len(returns) - (IF call = "replied" THEN 1 ELSE 0))

\* C7: print_until_done goes to DONE on receiving a return exactly when
\* that return's counter is >= total and loops otherwise, so DONE is
\* reached at the first such return; once DONE it stays DONE and issues no
\* further wait_for_update call.
C7_DoneAtFirstReachingDrain ==
    /\ [][(call = "replied" /\ call' = "none")
            => (pc' = "DONE" <=> reply[2] >= total)
               /\ (pc' = "RUNNING" <=> reply[2] < total)]_vars
    /\ [](\A i \in 1..Len(Received) :
            (Received[i][2] >= total) <=> (pc = "DONE" /\ i = Len(Received)))
    /\ [][pc = "DONE"
            => pc' = "DONE" /\ call' = "none" /\ ncalls' = ncalls
               /\ returns' = returns]_vars

\* C7 witness: DONE at the second return, and a report executed after it.
C7_Witness ==
    /\ pc = "DONE"
    /\ Len(returns) = 2
    /\ returns[1][2] < total
    /\ counter > LastReturn[2]

\* A sequence of integers is strictly increasing.
StrictlyIncreasing(s) == \A i \in 1..(Len(s) - 1) : s[i] < s[i + 1]

\* C8: in run(), with num_ticks tasks each reporting 1 and total =
\* num_ticks, the returned totals are strictly increasing and never exceed
\* num_ticks, print_until_done returns, and when it has, the last returned
\* total and the sum of the returned deltas are num_ticks and the
\* get_counter call that follows returns num_ticks.
C8_RunScenario ==
    /\ <>(pc = "DONE")
    /\ [](StrictlyIncreasing(Totals(returns)))
    /\ [](\A i \in 1..Len(returns) : returns[i][2] <= num_ticks)
    /\ [](pc = "DONE" => /\ LastReturn[2] = num_ticks
                          /\ SumSeq(Deltas(returns)) = num_ticks)
    /\ [](observed # NoRead => observed = <<num_ticks>>)

\* C8 witness: run() finished over three drains and get_counter returned.
C8_Witness ==
    /\ pc = "DONE"
    /\ Len(returns) = 3
    /\ observed = <<num_ticks>>

\* C9: the display has received one update(delta) per return that
\* print_until_done received, in order and with that return's delta, then
\* one close() if and only if DONE has been reached, and nothing else.
C9_DisplayCalls ==
    pbar = [i \in 1..Len(Received) |-> <<"update", Received[i][1]>>]
             \o (IF pc = "DONE" THEN << <<"close">> >> ELSE <<>>)

\* C9 witness: two updates then the close.
C9_Witness ==
    /\ pc = "DONE"
    /\ Len(pbar) = 3
    /\ pbar[3] = <<"close">>
    /\ pbar[1][2] # pbar[2][2]

\* C10: an update with num_items_completed <= 0 leaves counter, delta and
\* the event unchanged and does not release a parked wait_for_update.
C10_NonPositiveIgnored ==
    [][\A n \in AnyAmounts :
          (n <= 0 /\ update(n))
              => UNCHANGED <<counter, delta, event, call>>]_vars

\* C11: a ProgressBar with total <= 0 is rejected at construction, so
\* print_until_done is never running for one: no wait_for_update call is
\* issued and DONE is never reached with total <= 0.
C11_NonPositiveTotalRejected ==
    (ncalls > 0 \/ pc = "DONE") => total >= 1

\* C12: counter never decreases in a step, and only a step that executes
\* an update changes it.
C12_CounterMonotone ==
    [][/\ counter' >= counter
       /\ counter' # counter => \E n \in AnyAmounts : update(n)]_vars

\* C13: in every reachable state the event is set if and only if delta > 0.
C13_EventIffPending == event <=> delta > 0

\* C14: whenever a get_counter call returns a new value, that value is the
\* sum of the amounts of exactly the update calls executed so far: every
\* call still in flight is left out whole, none is counted in part.
C14_NoTornRead ==
    [][observed' # observed => observed' = <<SumBag(completed)>>]_vars

\* C14 witness: get_counter returned the current sum of two executed
\* reports while a third was in flight.
C14_Witness ==
    /\ observed = <<SumBag(completed)>>
    /\ BagCardinality(completed) = 2
    /\ BagCardinality(inflight) = 1
    /\ observed[1] > 0

\* C15: counter, delta and the event depend only on the multiset of the
\* amounts executed (in all, and since the last drain), not on the order
\* in which the update calls were executed.
C15_ReportsCommute ==
    /\ counter = SumBag(completed)
    /\ delta = SumBag(window)
    /\ event <=> window # EmptyBag

\* C15 witness: two different amounts executed with no drain in between.
C15_Witness ==
    /\ window = SetToBag({1, 2})
    /\ returns = <<>>
    /\ delta = 3
    /\ event

\* C16 as stated: units counted in counter and not yet returned are
\* eventually returned by a drain, so no execution ends with units that no
\* wait_for_update returned.
C16_EveryUnitEventuallyDrained ==
    (delta > 0) ~> (delta = 0)

\* C16 as amended: every executed report is eventually drained unless
\* print_until_done reaches DONE first, and counter is always the sum of
\* the deltas returned so far plus the amounts executed since the last
\* drain, so each executed report is in at most one returned delta.
C16_DrainedUnlessDone ==
    /\ (window # EmptyBag) ~> (window = EmptyBag \/ pc = "DONE")
    /\ [](counter = SumSeq(Deltas(returns)) + SumBag(window))

\* C16 witness: a report executed while the consumer was parked has been
\* returned by the second drain and print_until_done is still looping.
C16_Witness ==
    /\ Len(returns) = 2
    /\ window = EmptyBag
    /\ pc # "DONE"
    /\ counter = returns[1][1] + returns[2][1]
    /\ returns[2][1] > 0

\* C17: a parked wait_for_update call stays parked until an update is
\* executed (there is no timeout and no cancellation); if counter stays
\* below total, print_until_done never reaches DONE; and if moreover the
\* workers stop reporting, the call ends up parked for ever.
C17_BlockedForeverBelowTotal ==
    /\ [][call = "parked" /\ completed' = completed
            => call' = "parked"]_vars
    /\ [](counter < total) => [](pc # "DONE")
    /\ (<>[](inflight = EmptyBag) /\ [](counter < total))
            => <>[](call = "parked")

\* C17 witness: everything reported has been executed and drained, the
\* counter is below total, and the next wait_for_update call is parked.
C17_Witness ==
    /\ call = "parked"
    /\ inflight = EmptyBag
    /\ window = EmptyBag
    /\ Len(returns) >= 1
    /\ 0 < counter
    /\ counter < total

\* C18: in every reachable state, whatever the wait_for_update call and
\* print_until_done are doing, the actor can execute get_counter and every
\* update call in flight; the only call that is ever suspended is
\* wait_for_update.
C18_ReportAndReadNeverBlock ==
    /\ ENABLED get_counter
    /\ \A n \in AnyAmounts : BagIn(n, inflight) => ENABLED update(n)

\* C18 witness: after DONE a report was executed, another is in flight and
\* get_counter has returned.
C18_Witness ==
    /\ pc = "DONE"
    /\ inflight # EmptyBag
    /\ window # EmptyBag
    /\ observed = <<counter>>

\* C19: when the scheduled waiter resumes, its return carries every report
\* executed since the previous drain, those executed after the event.set()
\* that scheduled it included, and it leaves delta 0 and the event clear.
C19_ResumeDrainsWholeWindow ==
    [][(call = "woken" /\ DrainStep)
          => /\ returns'[Len(returns')][1] = SumBag(window)
             /\ returns'[Len(returns')][2] = SumBag(completed)
             /\ delta' = 0
             /\ ~event']_vars

\* C19 witness: the waiter is scheduled and a second report was executed
\* before it resumed.
C19_Witness ==
    /\ call = "woken"
    /\ BagCardinality(window) = 2
    /\ delta = 3

\* The total returned by the drain before the i-th (0 before the first).
PrevTotal(i) == IF i = 1 THEN 0 ELSE returns[i - 1][2]

\* C20: every return's delta is its counter minus the counter of the
\* previous return (0 for the first), and as long as every executed amount
\* is positive the returned counters are strictly increasing.
C20_DeltaIsTotalDifference ==
    /\ \A i \in 1..Len(returns) : returns[i][1] = returns[i][2] - PrevTotal(i)
    /\ (\A n \in BagToSet(completed) : n > 0)
            => StrictlyIncreasing(Totals(returns))

\* C20 witness: three drains of positive reports.
C20_Witness ==
    /\ Len(returns) = 3
    /\ \A n \in BagToSet(completed) : n > 0
    /\ returns[3][1] = returns[3][2] - returns[2][2]
    /\ returns[3][2] >= 4

\* The amounts given to pbar.update so far, in order.
Displayed ==
    LET ups == SelectSeq(pbar, LAMBDA e : e[1] = "update")
    IN [i \in 1..Len(ups) |-> ups[i][2]]

\* C21: once print_until_done has returned, the amounts it gave to
\* pbar.update sum to the counter of the last wait_for_update return, which
\* is >= total (and can be greater); the display gets no further call, no
\* further wait_for_update return happens, and whatever is executed after
\* that last return stays in counter and delta.
C21_ExcessStaysBanked ==
    /\ [](pc = "DONE" => /\ SumSeq(Displayed) = LastReturn[2]
                          /\ LastReturn[2] >= total
                          /\ counter = LastReturn[2] + delta
                          /\ delta = SumBag(window))
    /\ [][pc = "DONE" => pbar' = pbar /\ returns' = returns]_vars

\* C21 witness: print_until_done returned over two drains with a last
\* counter above total, and a report executed afterwards is pending.
C21_Witness ==
    /\ pc = "DONE"
    /\ Len(returns) = 2
    /\ LastReturn[2] > total
    /\ SumSeq(Displayed) = LastReturn[2]
    /\ delta > 0
    /\ counter = LastReturn[2] + delta

\* C22: a step in which get_counter is executed changes nothing but the
\* value handed to its caller: counter, delta and the event are as before,
\* nothing is drained, and the wait_for_update call is where it was
\* (parked stays parked, scheduled stays scheduled).
C22_GetCounterIsPureRead ==
    [][(get_counter \/ observed' # observed)
          => UNCHANGED <<counter, delta, event, call, reply, inflight,
                         window, returns, pc, pbar>>]_vars

\* C22 witness: a report was executed while the consumer was parked, and
\* get_counter has read the counter with the delta still pending and the
\* waiter still scheduled.
C22_Witness ==
    /\ call = "woken"
    /\ returns = <<>>
    /\ delta > 0
    /\ event
    /\ observed = <<counter>>

====
